---- MODULE Spec2Model ----
(***************************************************************************)
(* A model of the LFU in-memory cache of src/in_memory_lfu.go.             *)
(*                                                                         *)
(* The cache (InMemoryCache) is the three fields items, freqGroup and      *)
(* minFreq plus the three construction parameters.  Every public method    *)
(* and every tick of the startGC loop runs with the mutex held from its    *)
(* first to its last statement, so each is one atomic action here.  The    *)
(* wall clock (time.Now) is the variable now; it is read once per          *)
(* operation and advanced by the action Tick.                              *)
(*                                                                         *)
(* Keys are Go strings and values are Go interface values; the model       *)
(* draws both from small sets of strings.  Update's mutator receives a     *)
(* copy of the interface value (line 185), so it cannot replace the value  *)
(* an Item holds: the stored Value is unchanged by Update.                 *)
(***************************************************************************)
EXTENDS Integers, FiniteSets, Sequences, TLC

\* ------------------------------------------------------------------ bounds
\* The clock runs from 0 to MaxTime.
MaxTime == 2
\* An operation that would raise a frequency above MaxFreq is not taken.
MaxFreq == 3

\* math.MaxUint64, the value findNewMinFreq returns for an empty index.  TLC's
\* integers are 32 bits wide, so the largest of them stands for 2^64 - 1; the
\* frequencies of the model stay at or below MaxFreq, far from either.
MaxUint64 == 2147483647

\* The inputs of the calls and of the constructor.  A duration of 0 selects
\* the default expiration (line 62); a default expiration of 0 makes an entry
\* live at the instant it is set and expired at every later one.
Keys == {"a", "b", "c"}
Values == {"x", "y"}
Nil == "nil"
\* The methods treat every key alike; the history variable peak follows this one.
Watched == "a"
Sizes == {-1, 0, 1, 2}
Durations == {0, 1}
DefaultExpirations == {0}
CleanupIntervals == {0, 1}

VARIABLES
  items,              \* c.items: key -> Item
  freqGroup,          \* c.freqGroup: frequency -> set of keys
  minFreq,            \* c.minFreq
  defaultExpiration,  \* c.defaultExpiration
  cleanupInterval,    \* c.cleanupInterval
  size,               \* c.size
  now,                \* time.Now()
  last,               \* the most recent call: its arguments and what it returned
  written,            \* history: the value of the latest Set of each stored key
  bumps,              \* history: hits on each stored key since it was inserted
  peak,               \* history: the highest frequency the key Watched has had
  history             \* the history kept: "call" (last), "removal" (last
                      \* names a Delete or a sweeper tick only), "peak" or
                      \* "none"

\* The goroutines, for the runs in which calls overlap.
VARIABLES
  lock,               \* the embedded sync.Mutex: the goroutine holding it, or Nil
  pc,                 \* where each goroutine is in the method it runs
  cur,                \* the arguments and locals of the method each one runs
  snap                \* history: the cache as it was when the lock now held
                      \* was taken

vars == <<items, freqGroup, minFreq, defaultExpiration, cleanupInterval, size,
          now, last, written, bumps, peak, history, lock, pc, cur, snap>>

\* Two goroutines that call the methods, and the one NewInMemoryCache starts.
Callers == {"caller1", "caller2"}
Sweeper == "sweeper"
Procs == Callers \cup {Sweeper}

\* ------------------------------------------------------------- Go's maps
\* m[k] = v
MapPut(m, k, v) == [x \in DOMAIN m \cup {k} |-> IF x = k THEN v ELSE m[x]]
\* delete(m, k)
MapDelete(m, k) == [x \in DOMAIN m \ {k} |-> m[x]]
\* m[k] of a map of sets, where a missing key reads as the nil (empty) map
MapGetSet(m, k) == IF k \in DOMAIN m THEN m[k] ELSE {}
EmptyMap == [x \in {} |-> x]

\* Every order in which a range loop can visit the keys of S.
Orders(S) ==
  {o \in [1 .. Cardinality(S) -> S] : \A i, j \in DOMAIN o : i # j => o[i] # o[j]}

\* The cache as the methods see it.
Cache == [items |-> items, freqGroup |-> freqGroup, minFreq |-> minFreq]

\* ------------------------------------------------------------- helpers
\* Mutant: an entry counts as expired at the instant of its expiration.
isExpired_AtDeadline(item) == now >= item.Expiration

isExpired(item) == now > item.Expiration

\* Mutant: the duration given is ignored.
getExp_AlwaysDefault(duration) == now + defaultExpiration

getExp(duration) ==
  now + (IF duration <= 0 THEN defaultExpiration ELSE duration)

\* uint64 addition item.Frequency + 1
Incr(f) == IF f = MaxUint64 THEN 0 ELSE f + 1

\* Mutant: the key stays in its group.
deleteItemInGroup_KeepKey(c, item, key) == [c |-> c, minChanged |-> FALSE]

\* Returns the cache after the deletion and the method's result.
deleteItemInGroup(c, item, key) ==
  LET group == MapGetSet(c.freqGroup, item.Frequency) \ {key}
  IN  IF group = {}
      THEN [c |-> [c EXCEPT !.freqGroup = MapDelete(c.freqGroup, item.Frequency)],
            minChanged |-> (c.minFreq = item.Frequency)]
      ELSE [c |-> [c EXCEPT !.freqGroup = MapPut(c.freqGroup, item.Frequency, group)],
            minChanged |-> FALSE]

\* Mutant: the key is not taken out of the group it leaves.
upgradeItem_NoRemove(c, item, key) ==
  LET newFreq == Incr(item.Frequency)
      item2 == [item EXCEPT !.Frequency = newFreq]
      group == MapGetSet(c.freqGroup, newFreq) \cup {key}
  IN  [c EXCEPT !.freqGroup = MapPut(c.freqGroup, newFreq, group),
                !.items = MapPut(c.items, key, item2)]

upgradeItem(c, item, key) ==
  LET newFreq == Incr(item.Frequency)
      c1 == [c EXCEPT !.items = MapPut(c.items, key, item)]
      d == deleteItemInGroup(c1, item, key)
      c2 == IF d.minChanged THEN [d.c EXCEPT !.minFreq = newFreq] ELSE d.c
      item2 == [item EXCEPT !.Frequency = newFreq]
      group == MapGetSet(c2.freqGroup, newFreq) \cup {key}
  IN  [c2 EXCEPT !.freqGroup = MapPut(c2.freqGroup, newFreq, group),
                 !.items = MapPut(c2.items, key, item2)]

\* Mutant: the scan keeps the largest index (the comparison is turned round).
findNewMinFreq_Largest(c) ==
  IF DOMAIN c.freqGroup = {}
  THEN MaxUint64
  ELSE CHOOSE f \in DOMAIN c.freqGroup : \A g \in DOMAIN c.freqGroup : f >= g

findNewMinFreq(c) ==
  IF DOMAIN c.freqGroup = {}
  THEN MaxUint64
  ELSE CHOOSE f \in DOMAIN c.freqGroup : \A g \in DOMAIN c.freqGroup : f <= g

\* Mutant: a capacity of 0 is let through.
disabled_Negative == size < 0

\* Line 70: the capacity for which Set returns at once.
disabled == size <= 0

\* Mutant: the entry keeps the value it had.
overwrite_KeepValue(c, newItem, key) ==
  upgradeItem(c, [newItem EXCEPT !.Frequency = c.items[key].Frequency,
                                 !.Value = c.items[key].Value], key)

\* Mutant: the frequency restarts as for a new key.
overwrite_Restart(c, newItem, key) == upgradeItem(c, newItem, key)

\* Lines 83-87: Set of a stored key keeps the frequency the key has.
overwrite(c, newItem, key) ==
  upgradeItem(c, [newItem EXCEPT !.Frequency = c.items[key].Frequency], key)

\* Mutant: any stored key can be the one evicted.
victims_Any(c) == DOMAIN c.items

\* Line 90: the keys the range loop of the eviction can yield first.
victims(c) == MapGetSet(c.freqGroup, c.minFreq)

\* Mutant: the loop has no break and removes the whole group.
evict_WholeGroup(c, keyToDelete) ==
  [c EXCEPT !.freqGroup = MapDelete(c.freqGroup, c.minFreq),
            !.items = [k \in DOMAIN c.items \ victims(c) |-> c.items[k]]]

\* Mutant: the key leaves its group and stays in items.
evict_KeepItem(c, keyToDelete) ==
  deleteItemInGroup(c, c.items[keyToDelete], keyToDelete).c

\* Lines 91-92: the removal of keyToDelete.
evict(c, keyToDelete) ==
  LET d == deleteItemInGroup(c, c.items[keyToDelete], keyToDelete)
  IN  [d.c EXCEPT !.items = MapDelete(d.c.items, keyToDelete)]

\* Mutant: the new entry is left at frequency 0.
insert_NoUpgrade(c, newItem, key) ==
  [c EXCEPT !.freqGroup = MapPut(c.freqGroup, newItem.Frequency, {key}),
            !.minFreq = newItem.Frequency,
            !.items = MapPut(c.items, key, newItem)]

\* Lines 97-100: the insertion of a key that is not stored.
insert(c, newItem, key) ==
  upgradeItem([c EXCEPT !.freqGroup = MapPut(c.freqGroup, newItem.Frequency, {key}),
                        !.minFreq = newItem.Frequency],
              newItem, key)

\* Mutant: the loop of Update without the test for expiry.
RECURSIVE updateLoop_BumpExpired(_, _, _, _, _)
updateLoop_BumpExpired(c, order, i, isUpdated, exp) ==
  IF i > Len(order)
  THEN c
  ELSE LET key == order[i]
           item == c.items[key]
       IN  IF item.Value \in isUpdated
           THEN updateLoop_BumpExpired(
                  upgradeItem(c, [item EXCEPT !.Expiration = exp], key),
                  order, i + 1, isUpdated, exp)
           ELSE updateLoop_BumpExpired(c, order, i + 1, isUpdated, exp)

\* Lines 183-189: the range loop of Update, visiting the keys in the order
\* given; isUpdated is the set of values the caller's predicate accepts.
RECURSIVE updateLoop(_, _, _, _, _)
updateLoop(c, order, i, isUpdated, exp) ==
  IF i > Len(order)
  THEN c
  ELSE LET key == order[i]
           item == c.items[key]
       IN  IF item.Value \in isUpdated /\ ~isExpired(item)
           THEN updateLoop(upgradeItem(c, [item EXCEPT !.Expiration = exp], key),
                           order, i + 1, isUpdated, exp)
           ELSE updateLoop(c, order, i + 1, isUpdated, exp)

\* Mutant: a tick of the sweeper that also removes the entries whose
\* expiration is the present instant.
RECURSIVE gcLoop_AtDeadline(_, _, _, _)
gcLoop_AtDeadline(c, order, i, isFindMin) ==
  IF i > Len(order)
  THEN IF isFindMin THEN [c EXCEPT !.minFreq = findNewMinFreq(c)] ELSE c
  ELSE LET key == order[i]
           item == c.items[key]
       IN  IF now >= item.Expiration
           THEN LET c1 == [c EXCEPT !.items = MapDelete(c.items, key)]
                    d == deleteItemInGroup(c1, item, key)
                IN  gcLoop_AtDeadline(d.c, order, i + 1, d.minChanged \/ isFindMin)
           ELSE gcLoop_AtDeadline(c, order, i + 1, isFindMin)

\* Lines 196-206: one tick of the sweeper, visiting the keys in the order given.
RECURSIVE gcLoop(_, _, _, _)
gcLoop(c, order, i, isFindMin) ==
  IF i > Len(order)
  THEN IF isFindMin THEN [c EXCEPT !.minFreq = findNewMinFreq(c)] ELSE c
  ELSE LET key == order[i]
           item == c.items[key]
       IN  IF isExpired(item)
           THEN LET c1 == [c EXCEPT !.items = MapDelete(c.items, key)]
                    d == deleteItemInGroup(c1, item, key)
                IN  gcLoop(d.c, order, i + 1, d.minChanged \/ isFindMin)
           ELSE gcLoop(c, order, i + 1, isFindMin)

\* ------------------------------------------------------------- the calls
\* A call as last records it.  key is the key argument; value, duration and
\* time are the arguments and the instant of a Set; evicted is the key a Set
\* removed; follows says that the call before a Get was a Set of the same key;
\* found, ret and err are what Get and Delete returned (err: "Key not found");
\* count is the number of entries an Update bumped or a sweeper tick removed.
NoCall == [op |-> "New", key |-> Nil, value |-> Nil, duration |-> 0, time |-> 0,
           evicted |-> Nil, follows |-> FALSE,
           found |-> FALSE, ret |-> Nil, err |-> FALSE, count |-> 0]

\* What cur holds for a goroutine that is in no method.
NoArgs == [op |-> Nil, key |-> Nil,
           item |-> [Value |-> Nil, Expiration |-> 0, Frequency |-> 0],
           isUpdated |-> {}, reenter |-> FALSE]

\* No goroutine is in a method: the calls come one after the other.
Quiet ==
  /\ lock = Nil
  /\ pc = [p \in Procs |-> "idle"]
  /\ cur = [p \in Procs |-> NoArgs]
  /\ snap = [items |-> EmptyMap, freqGroup |-> EmptyMap, minFreq |-> 1]

\* The cache becomes c and the call is recorded; the construction parameters
\* and the clock stay.
Return(c, call) ==
  /\ \A k \in DOMAIN c.items : c.items[k].Frequency <= MaxFreq
  /\ items' = c.items
  /\ freqGroup' = c.freqGroup
  /\ minFreq' = c.minFreq
  /\ last' = IF history = "call" THEN call
             ELSE IF history = "removal"
               THEN IF call.op \in {"Delete", "GC"}
                      THEN [NoCall EXCEPT !.op = call.op] ELSE NoCall
             ELSE last
  /\ UNCHANGED <<defaultExpiration, cleanupInterval, size, now, history>>
  /\ UNCHANGED <<lock, pc, cur, snap>>

\* History: hit is the set of keys the call bumped, set is the key it stored.
Record(hit, set, value) ==
  /\ written' = [k \in DOMAIN items' |-> IF k \in set THEN value ELSE written[k]]
  /\ bumps' = [k \in DOMAIN items' |->
                 IF k \notin DOMAIN items THEN 0
                 ELSE IF k \in hit THEN bumps[k] + 1 ELSE bumps[k]]
  /\ peak' = IF history = "peak" /\ Watched \in DOMAIN items'
                                /\ items'[Watched].Frequency > peak
             THEN items'[Watched].Frequency
             ELSE peak

NewInMemoryCache ==
  /\ items = EmptyMap
  /\ freqGroup = EmptyMap
  /\ minFreq = 1
  /\ defaultExpiration \in DefaultExpirations
  /\ cleanupInterval \in CleanupIntervals
  /\ size \in Sizes
  /\ now = 0
  /\ last = NoCall
  /\ written = EmptyMap
  /\ bumps = EmptyMap
  /\ peak = 0
  /\ history = "call"
  /\ Quiet

Set(key, value, duration) ==
  LET call == [NoCall EXCEPT !.op = "Set", !.key = key, !.value = value,
                             !.duration = duration, !.time = now]
      newItem == [Value |-> value, Expiration |-> getExp(duration), Frequency |-> 0]
  IN  IF disabled
      THEN Return(Cache, call) /\ Record({}, {}, value)
      ELSE IF key \in DOMAIN items
      THEN /\ Return(overwrite(Cache, newItem, key), call)
           /\ Record({key}, {key}, value)
      ELSE IF Cardinality(DOMAIN items) >= size /\ victims(Cache) # {}
      THEN \E keyToDelete \in victims(Cache) :
             /\ Return(insert(evict(Cache, keyToDelete), newItem, key),
                       [call EXCEPT !.evicted = keyToDelete])
             /\ Record({}, {key}, value)
      ELSE /\ Return(insert(Cache, newItem, key), call)
           /\ Record({}, {key}, value)

\* Mutant: a Get that finds an expired entry deletes it.
Get_DeleteExpired(key) ==
  LET call == [NoCall EXCEPT !.op = "Get", !.key = key,
                             !.follows = (last.op = "Set" /\ last.key = key)]
  IN  IF key \notin DOMAIN items
      THEN Return(Cache, call) /\ Record({}, {}, Nil)
      ELSE IF isExpired(items[key])
      THEN LET c1 == [Cache EXCEPT !.items = MapDelete(items, key)]
               d == deleteItemInGroup(c1, items[key], key)
           IN  /\ Return(IF d.minChanged
                         THEN [d.c EXCEPT !.minFreq = findNewMinFreq(d.c)]
                         ELSE d.c, call)
               /\ Record({}, {}, Nil)
      ELSE /\ Return(upgradeItem(Cache, items[key], key),
                     [call EXCEPT !.found = TRUE, !.ret = items[key].Value])
           /\ Record({key}, {}, Nil)

Get(key) ==
  LET call == [NoCall EXCEPT !.op = "Get", !.key = key,
                             !.follows = (last.op = "Set" /\ last.key = key)]
  IN  IF key \notin DOMAIN items
      THEN Return(Cache, call) /\ Record({}, {}, Nil)
      ELSE IF isExpired(items[key])
      THEN Return(Cache, call) /\ Record({}, {}, Nil)
      ELSE /\ Return(upgradeItem(Cache, items[key], key),
                     [call EXCEPT !.found = TRUE, !.ret = items[key].Value])
           /\ Record({key}, {}, Nil)

\* Mutant: the check for a missing key is left out; the zero Item is deleted.
Delete_NoNotFound(key) ==
  LET call == [NoCall EXCEPT !.op = "Delete", !.key = key]
      item == IF key \in DOMAIN items THEN items[key]
              ELSE [Value |-> Nil, Expiration |-> 0, Frequency |-> 0]
      c1 == [Cache EXCEPT !.items = MapDelete(items, key)]
      d == deleteItemInGroup(c1, item, key)
  IN  /\ Return(IF d.minChanged
                THEN [d.c EXCEPT !.minFreq = findNewMinFreq(d.c)]
                ELSE d.c, call)
      /\ Record({}, {}, Nil)

Delete(key) ==
  LET call == [NoCall EXCEPT !.op = "Delete", !.key = key]
  IN  IF key \notin DOMAIN items
      THEN Return(Cache, [call EXCEPT !.err = TRUE]) /\ Record({}, {}, Nil)
      ELSE LET c1 == [Cache EXCEPT !.items = MapDelete(items, key)]
               d == deleteItemInGroup(c1, items[key], key)
           IN  /\ Return(IF d.minChanged
                         THEN [d.c EXCEPT !.minFreq = findNewMinFreq(d.c)]
                         ELSE d.c, call)
               /\ Record({}, {}, Nil)

Update(isUpdated, duration) ==
  LET call == [NoCall EXCEPT !.op = "Update"]
      exp == getExp(duration)
  IN  \E c \in {updateLoop(Cache, order, 1, isUpdated, exp) :
                  order \in Orders(DOMAIN items)} :
        /\ LET bumped == {k \in DOMAIN items :
                            k \notin DOMAIN c.items \/ c.items[k] # items[k]}
           IN  Return(c, [call EXCEPT !.count = Cardinality(bumped)])
        /\ Record({k \in DOMAIN items :
                     items[k].Value \in isUpdated /\ now <= items[k].Expiration},
                  {}, Nil)

\* Mutant: the constructor starts no sweeper for an interval of one unit.
startGC_Unstarted ==
  /\ cleanupInterval > 1
  /\ \E c \in {gcLoop(Cache, order, 1, FALSE) : order \in Orders(DOMAIN items)} :
       /\ Return(c, [NoCall EXCEPT
                       !.op = "GC",
                       !.count = Cardinality(DOMAIN items \ DOMAIN c.items)])
       /\ Record({}, {}, Nil)

\* Mutant: the sweeper runs whatever the cleanup interval.
startGC_Always ==
  \E c \in {gcLoop(Cache, order, 1, FALSE) : order \in Orders(DOMAIN items)} :
    /\ Return(c, [NoCall EXCEPT
                    !.op = "GC",
                    !.count = Cardinality(DOMAIN items \ DOMAIN c.items)])
    /\ Record({}, {}, Nil)

startGC ==
  /\ cleanupInterval > 0
  /\ \E c \in {gcLoop(Cache, order, 1, FALSE) : order \in Orders(DOMAIN items)} :
       /\ Return(c, [NoCall EXCEPT
                       !.op = "GC",
                       !.count = Cardinality(DOMAIN items \ DOMAIN c.items)])
       /\ Record({}, {}, Nil)

\* time.Now() moves on between two operations.
Tick ==
  /\ now < MaxTime
  /\ now' = now + 1
  /\ UNCHANGED <<items, freqGroup, minFreq, defaultExpiration, cleanupInterval,
                 size, last, written, bumps, peak, history>>
  /\ UNCHANGED <<lock, pc, cur, snap>>

Init == NewInMemoryCache

Next ==
  \/ \E key \in Keys, value \in Values, duration \in Durations : Set(key, value, duration)
  \/ \E key \in Keys : Get(key)
  \/ \E key \in Keys : Delete(key)
  \/ \E isUpdated \in SUBSET Values, duration \in Durations : Update(isUpdated, duration)
  \/ startGC
  \/ Tick

Spec == Init /\ [][Next]_vars

\* The same cache, keeping the history variable peak in place of last.
InitHist ==
  /\ items = EmptyMap
  /\ freqGroup = EmptyMap
  /\ minFreq = 1
  /\ defaultExpiration \in DefaultExpirations
  /\ cleanupInterval \in CleanupIntervals
  /\ size \in Sizes
  /\ now = 0
  /\ last = NoCall
  /\ written = EmptyMap
  /\ bumps = EmptyMap
  /\ peak = 0
  /\ history = "peak"
  /\ Quiet

SpecHist == InitHist /\ [][Next]_vars

\* A cache built with a cleanup interval above 0, keeping no history of the
\* calls.
InitSwept ==
  /\ items = EmptyMap
  /\ freqGroup = EmptyMap
  /\ minFreq = 1
  /\ defaultExpiration \in DefaultExpirations
  /\ cleanupInterval \in {i \in CleanupIntervals : i > 0}
  /\ size \in Sizes
  /\ now = 0
  /\ last = NoCall
  /\ written = EmptyMap
  /\ bumps = EmptyMap
  /\ peak = 0
  /\ history = "none"
  /\ Quiet

\* The sweeper goroutine ranges over time.Tick(cleanupInterval) for the life
\* of the cache (lines 193-208): a tick that has something to do is not put
\* off for ever.
SpecFair == InitSwept /\ [][Next]_vars /\ WF_vars(startGC)

\* A cache with room for every key, so that a removal can leave two buckets
\* behind; of the calls only whether the latest was a Delete or a sweeper tick
\* is kept.
InitWide ==
  /\ items = EmptyMap
  /\ freqGroup = EmptyMap
  /\ minFreq = 1
  /\ defaultExpiration \in DefaultExpirations
  /\ cleanupInterval = 1
  /\ size = Cardinality(Keys)
  /\ now = 0
  /\ last = NoCall
  /\ written = EmptyMap
  /\ bumps = EmptyMap
  /\ peak = 0
  /\ history = "removal"
  /\ Quiet

SpecWide == InitWide /\ [][Next]_vars

\* ------------------------------------------------------------- goroutines
\* The methods run by goroutines that overlap.  A method takes the lock, runs
\* its body in one or two steps, and releases the lock on return; the
\* arguments are drawn when the lock is taken.

\* Mutant: the mutex lets everyone in.
free_Always == TRUE

\* c.Lock() goes through when no goroutine holds the mutex.
free == lock = Nil

\* Room for one more bump of every entry within MaxFreq.
Room == \A k \in DOMAIN items : items[k].Frequency < MaxFreq

\* The cache becomes c.
Become(c) ==
  /\ items' = c.items
  /\ freqGroup' = c.freqGroup
  /\ minFreq' = c.minFreq

\* Goroutine p moves to label.
Goto(p, label) == pc' = [pc EXCEPT ![p] = label]

\* What no step of a goroutine changes.
Fixed ==
  UNCHANGED <<defaultExpiration, cleanupInterval, size, now, last, written,
              bumps, peak, history>>

\* c.Lock() at the head of a method: p waits until the mutex is free.
Lock(p, args, label) ==
  /\ pc[p] = "idle"
  /\ free
  /\ Room
  /\ lock' = p
  /\ Goto(p, label)
  /\ cur' = [cur EXCEPT ![p] = args]
  /\ snap' = Cache
  /\ UNCHANGED <<items, freqGroup, minFreq>>
  /\ Fixed

\* c.Unlock(), deferred in the methods and at the end of a sweeper tick.
Unlock(p) ==
  /\ pc[p] = "unlock"
  /\ lock' = Nil
  /\ Goto(p, "idle")
  /\ cur' = [cur EXCEPT ![p] = NoArgs]
  /\ snap' = [items |-> EmptyMap, freqGroup |-> EmptyMap, minFreq |-> 1]
  /\ UNCHANGED <<items, freqGroup, minFreq>>
  /\ Fixed

\* Lines 70-81: Set returns at once on a disabled cache, without the lock;
\* otherwise it takes the lock and builds newItem.
SetLock(p, key, value, duration) ==
  IF disabled
  THEN pc[p] = "idle" /\ UNCHANGED vars
  ELSE Lock(p, [NoArgs EXCEPT
                  !.op = "Set", !.key = key,
                  !.item = [Value |-> value, Expiration |-> getExp(duration),
                            Frequency |-> 0]],
            "set")

\* Lines 83-95: the overwrite, or the eviction when the store is full.
SetBody(p) ==
  /\ pc[p] = "set"
  /\ LET a == cur[p]
     IN  IF a.key \in DOMAIN items
         THEN Become(overwrite(Cache, a.item, a.key)) /\ Goto(p, "unlock")
         ELSE IF Cardinality(DOMAIN items) >= size /\ victims(Cache) # {}
         THEN \E keyToDelete \in victims(Cache) :
                Become(evict(Cache, keyToDelete)) /\ Goto(p, "insert")
         ELSE Become(Cache) /\ Goto(p, "insert")
  /\ UNCHANGED <<lock, cur, snap>>
  /\ Fixed

\* Lines 97-100: the insertion of the new key.
SetInsert(p) ==
  /\ pc[p] = "insert"
  /\ Become(insert(Cache, cur[p].item, cur[p].key))
  /\ Goto(p, "unlock")
  /\ UNCHANGED <<lock, cur, snap>>
  /\ Fixed

GetLock(p, key) == Lock(p, [NoArgs EXCEPT !.op = "Get", !.key = key], "get")

\* Lines 108-121.
GetBody(p) ==
  /\ pc[p] = "get"
  /\ LET key == cur[p].key
     IN  IF key \in DOMAIN items /\ ~isExpired(items[key])
         THEN Become(upgradeItem(Cache, items[key], key))
         ELSE Become(Cache)
  /\ Goto(p, "unlock")
  /\ UNCHANGED <<lock, cur, snap>>
  /\ Fixed

DeleteLock(p, key) == Lock(p, [NoArgs EXCEPT !.op = "Delete", !.key = key], "delete")

\* Lines 142-148: the lookup and delete(c.items, key).
DeleteItems(p) ==
  /\ pc[p] = "delete"
  /\ LET key == cur[p].key
     IN  IF key \notin DOMAIN items
         THEN /\ Become(Cache)
              /\ Goto(p, "unlock")
              /\ UNCHANGED cur
         ELSE /\ Become([Cache EXCEPT !.items = MapDelete(items, key)])
              /\ Goto(p, "group")
              /\ cur' = [cur EXCEPT ![p].item = items[key]]
  /\ UNCHANGED <<lock, snap>>
  /\ Fixed

\* Lines 150-152: the key leaves its bucket and minFreq is found again.
DeleteGroup(p) ==
  /\ pc[p] = "group"
  /\ LET d == deleteItemInGroup(Cache, cur[p].item, cur[p].key)
     IN  Become(IF d.minChanged
                THEN [d.c EXCEPT !.minFreq = findNewMinFreq(d.c)]
                ELSE d.c)
  /\ Goto(p, "unlock")
  /\ UNCHANGED <<lock, cur, snap>>
  /\ Fixed

\* reenter: the predicate or the mutator given calls a method of this cache.
UpdateLock(p, isUpdated, duration, reenter) ==
  Lock(p, [NoArgs EXCEPT
             !.op = "Update", !.isUpdated = isUpdated, !.reenter = reenter,
             !.item = [Value |-> Nil, Expiration |-> getExp(duration),
                       Frequency |-> 0]],
       "update")

\* Lines 183-189.  The predicate is called on the first item of the loop,
\* with the lock held: if it calls a method of the cache, that method's
\* c.Lock() waits for the lock its own caller holds.
UpdateBody(p) ==
  /\ pc[p] = "update"
  /\ IF cur[p].reenter /\ DOMAIN items # {}
     THEN Become(Cache) /\ Goto(p, "relock")
     ELSE /\ \E c \in {updateLoop(Cache, order, 1, cur[p].isUpdated,
                                   cur[p].item.Expiration) :
                          order \in Orders(DOMAIN items)} : Become(c)
          /\ Goto(p, "unlock")
  /\ UNCHANGED <<lock, cur, snap>>
  /\ Fixed

\* Lines 193-194: a tick of the sweeper that NewInMemoryCache started.
SweeperLock ==
  /\ cleanupInterval > 0
  /\ Lock(Sweeper, [NoArgs EXCEPT !.op = "GC"], "gc")

\* Lines 196-206.
SweeperBody ==
  /\ pc[Sweeper] = "gc"
  /\ \E c \in {gcLoop(Cache, order, 1, FALSE) : order \in Orders(DOMAIN items)} :
       Become(c)
  /\ Goto(Sweeper, "unlock")
  /\ UNCHANGED <<lock, cur, snap>>
  /\ Fixed

\* Lines 83-100 as a whole: the caches a Set of key can leave behind c.
SetResults(c, newItem, key) ==
  IF key \in DOMAIN c.items
  THEN {overwrite(c, newItem, key)}
  ELSE IF Cardinality(DOMAIN c.items) >= size /\ victims(c) # {}
  THEN {insert(evict(c, keyToDelete), newItem, key) : keyToDelete \in victims(c)}
  ELSE {insert(c, newItem, key)}

\* Lines 142-154 as a whole: the cache a Delete of key leaves behind c.
DeleteResult(c, key) ==
  IF key \notin DOMAIN c.items
  THEN c
  ELSE LET d == deleteItemInGroup([c EXCEPT !.items = MapDelete(c.items, key)],
                                  c.items[key], key)
       IN  IF d.minChanged
           THEN [d.c EXCEPT !.minFreq = findNewMinFreq(d.c)]
           ELSE d.c

\* A cache with a sweeper, used by goroutines that overlap; no history of
\* the calls is kept.
InitConc ==
  /\ items = EmptyMap
  /\ freqGroup = EmptyMap
  /\ minFreq = 1
  /\ defaultExpiration \in DefaultExpirations
  /\ cleanupInterval \in {i \in CleanupIntervals : i > 0}
  /\ size \in {n \in Sizes : n >= 0}
  /\ now = 0
  /\ last = NoCall
  /\ written = EmptyMap
  /\ bumps = EmptyMap
  /\ peak = 0
  /\ history = "none"
  /\ Quiet

NextConc ==
  \/ \E p \in Callers, key \in Keys, value \in Values, duration \in Durations :
       SetLock(p, key, value, duration)
  \/ \E p \in Callers : SetBody(p)
  \/ \E p \in Callers : SetInsert(p)
  \/ \E p \in Callers, key \in Keys : GetLock(p, key)
  \/ \E p \in Callers : GetBody(p)
  \/ \E p \in Callers, key \in Keys : DeleteLock(p, key)
  \/ \E p \in Callers : DeleteItems(p)
  \/ \E p \in Callers : DeleteGroup(p)
  \/ \E p \in Callers, isUpdated \in SUBSET Values, duration \in Durations,
          reenter \in BOOLEAN :
       UpdateLock(p, isUpdated, duration, reenter)
  \/ \E p \in Callers : UpdateBody(p)
  \/ SweeperLock
  \/ SweeperBody
  \/ \E p \in Procs : Unlock(p)
  \/ Tick

SpecConc == InitConc /\ [][NextConc]_vars

\* ------------------------------------------------------------- the claims
\* A step is a call of the named method exactly when it records that call
\* and leaves the clock alone (Tick, the only other step, moves the clock).
SetStep(key) == last'.op = "Set" /\ last'.key = key /\ now' = now
GetStep(key) == last'.op = "Get" /\ last'.key = key /\ now' = now
DeleteStep(key) == last'.op = "Delete" /\ last'.key = key /\ now' = now

\* Whether key lies in some bucket of the frequency index fg.
InSomeGroup(fg, key) == \E f \in DOMAIN fg : key \in fg[f]

\* C1: with a capacity above 0 the number of stored entries, live or
\* expired, never exceeds the capacity.
C1_WithinCapacity == size > 0 => Cardinality(DOMAIN items) <= size

\* A Set has just evicted a key and the store is full again.
C1_Witness ==
  /\ size > 0
  /\ last.op = "Set"
  /\ last.evicted # Nil
  /\ Cardinality(DOMAIN items) = size

\* C2: a Set that inserts a new key while the store is at capacity removes a
\* key, every key it removes was in freqGroup[minFreq] just before, and no
\* stored entry had a lower frequency than the removed one.
C2_EvictsLeastFrequent ==
  [][\A key \in Keys :
       (SetStep(key) /\ size > 0 /\ key \notin DOMAIN items
          /\ Cardinality(DOMAIN items) >= size)
       => LET removed == DOMAIN items \ DOMAIN items'
          IN  /\ removed # {}
              /\ \A r \in removed :
                   /\ minFreq \in DOMAIN freqGroup
                   /\ r \in freqGroup[minFreq]
                   /\ \A k \in DOMAIN items :
                        items[r].Frequency <= items[k].Frequency]_vars

\* A Set has evicted a key while an entry of a higher frequency stayed.
C2_Witness ==
  /\ last.op = "Set"
  /\ last.evicted # Nil
  /\ last.evicted \notin DOMAIN items
  /\ \E k \in DOMAIN items : items[k].Frequency >= 2

\* C3: Get(k) returns (v, true) exactly when k is stored and its expiration
\* has not passed, v being the value of the latest Set of k; otherwise it
\* returns (nil, false).
C3_GetResult ==
  [][\A key \in Keys :
       GetStep(key)
       => IF key \in DOMAIN items /\ now <= items[key].Expiration
          THEN last'.found /\ last'.ret = written[key]
          ELSE ~last'.found /\ last'.ret = Nil]_vars

\* A Get has hit a key at the very instant of its expiration.
C3_Witness ==
  /\ last.op = "Get"
  /\ last.found
  /\ last.ret \in Values
  /\ items[last.key].Expiration = now
  /\ now > 0

\* C4 as claimed, for any cache: a Get(k) that directly follows Set(k, v, ttl)
\* with ttl > 0, before ttl has elapsed, returns (v, true).
C4_RoundTripAnyCache ==
  [][\A key \in Keys :
       (GetStep(key) /\ last.op = "Set" /\ last.key = key /\ last.duration > 0
          /\ now <= last.time + last.duration)
       => (last'.found /\ last'.ret = last.value)]_vars

\* C4 as amended: the same round trip for a cache built with a capacity above 0.
C4_RoundTrip ==
  [][\A key \in Keys :
       (GetStep(key) /\ size > 0
          /\ last.op = "Set" /\ last.key = key /\ last.duration > 0
          /\ now <= last.time + last.duration)
       => (last'.found /\ last'.ret = last.value)]_vars

\* A Get directly after a Set of its key has hit, with time passed in between.
C4_Witness ==
  /\ last.op = "Get"
  /\ last.follows
  /\ last.found
  /\ size > 0
  /\ now > 0
  /\ bumps[last.key] = 1

\* C5: Delete of a key that is not stored returns the error and leaves
\* items, freqGroup and minFreq as they were.
C5_DeleteAbsent ==
  [][\A key \in Keys :
       (DeleteStep(key) /\ key \notin DOMAIN items)
       => (last'.err /\ UNCHANGED <<items, freqGroup, minFreq>>)]_vars

\* A Delete has failed on a cache that holds other keys.
C5_Witness ==
  /\ last.op = "Delete"
  /\ last.err
  /\ DOMAIN items # {}

\* C6: Delete of a stored key, live or expired, returns no error; the key is
\* then in neither items nor any bucket, and every other entry is as it was.
C6_DeletePresent ==
  [][\A key \in Keys :
       (DeleteStep(key) /\ key \in DOMAIN items)
       => /\ ~last'.err
          /\ key \notin DOMAIN items'
          /\ ~InSomeGroup(freqGroup', key)
          /\ \A k \in DOMAIN items \ {key} :
               k \in DOMAIN items' /\ items'[k] = items[k]]_vars

\* A Delete has removed a key and another entry, an expired one, is still stored.
C6_Witness ==
  /\ last.op = "Delete"
  /\ ~last.err
  /\ last.key \notin DOMAIN items
  /\ \E k \in DOMAIN items : now > items[k].Expiration

\* C7: Get removes no entry and changes no value and no expiration; a miss
\* leaves the cache as it was, and a hit changes only the frequency and the
\* bucket of the key it hit (and possibly minFreq).
C7_GetFrame ==
  [][\A key \in Keys :
       GetStep(key)
       => /\ DOMAIN items' = DOMAIN items
          /\ \A k \in DOMAIN items :
               /\ items'[k].Value = items[k].Value
               /\ items'[k].Expiration = items[k].Expiration
          /\ ~last'.found => UNCHANGED <<items, freqGroup, minFreq>>
          /\ last'.found =>
               \A k \in DOMAIN items \ {key} :
                 /\ items'[k] = items[k]
                 /\ \A f \in DOMAIN freqGroup \cup DOMAIN freqGroup' :
                      k \in MapGetSet(freqGroup', f) <=> k \in MapGetSet(freqGroup, f)]_vars

\* A Get has missed an expired entry that still fills the store to capacity.
C7_Witness ==
  /\ last.op = "Get"
  /\ ~last.found
  /\ last.key \in DOMAIN items
  /\ now > items[last.key].Expiration
  /\ Cardinality(DOMAIN items) = size

\* C8: the frequency of a stored key is 1 plus the number of Get hits,
\* Set overwrites and Update matches on it since it was inserted.
C8_FrequencyCounts ==
  \A k \in DOMAIN items : items[k].Frequency = 1 + bumps[k]

\* A key has been hit twice since its insertion, the second time by a Set.
C8_Witness ==
  /\ last.op = "Set"
  /\ last.key \in DOMAIN items
  /\ bumps[last.key] = 2

\* C9 as claimed: in any two states in which a key is stored, its frequency
\* in the later one is at least its frequency in the earlier one.
C9_NeverBelowPeak ==
  Watched \in DOMAIN items => items[Watched].Frequency >= peak

\* C9 as amended: no step lowers the frequency of a key that is stored
\* before and after it.
C9_NoStepDecreases ==
  [][\A k \in DOMAIN items \cap DOMAIN items' :
       items'[k].Frequency >= items[k].Frequency]_vars

\* The watched key is stored at a frequency it has reached by hits.
C9_Witness ==
  /\ history = "peak"
  /\ Watched \in DOMAIN items
  /\ items[Watched].Frequency = peak
  /\ peak >= 2

\* C10: a cache built with a capacity of 0 or less stays as it was built,
\* whatever is called, and every Get on it returns (nil, false).
C10_ZeroCapacity ==
  size <= 0 =>
    /\ DOMAIN items = {}
    /\ DOMAIN freqGroup = {}
    /\ minFreq = 1
    /\ last.op = "Get" => (~last.found /\ last.ret = Nil)

\* On a cache of capacity 0 or less a Get has directly followed a Set of its key.
C10_Witness ==
  /\ size <= 0
  /\ last.op = "Get"
  /\ last.follows

\* The frequencies of the stored entries.
Frequencies == {items[k].Frequency : k \in DOMAIN items}

\* C13: the frequency index is the partition of the stored keys by
\* frequency: every stored key is in the bucket of its frequency and in no
\* other, no bucket holds a key that is not stored, and no bucket is empty.
C13_IndexIsPartition ==
  /\ \A k \in DOMAIN items :
       \A f \in DOMAIN freqGroup \cup {items[k].Frequency} :
         k \in MapGetSet(freqGroup, f) <=> f = items[k].Frequency
  /\ \A f \in DOMAIN freqGroup :
       freqGroup[f] # {} /\ freqGroup[f] \subseteq DOMAIN items

\* Two stored keys share one bucket and a third bucket-mate has moved up.
C13_Witness ==
  /\ Cardinality(DOMAIN items) = 2
  /\ Cardinality(DOMAIN freqGroup) = 2
  /\ last.op \in {"Get", "Update", "Set"}
  /\ \E k \in DOMAIN items : items[k].Frequency = 3

\* C14: when the store is not empty, minFreq is the smallest index of a
\* non-empty bucket and the smallest frequency of a stored entry.
C14_MinFreqIsMinimum ==
  DOMAIN items # {} =>
    /\ minFreq \in DOMAIN freqGroup
    /\ freqGroup[minFreq] # {}
    /\ \A f \in DOMAIN freqGroup : freqGroup[f] # {} => minFreq <= f
    /\ minFreq \in Frequencies
    /\ \A f \in Frequencies : minFreq <= f

\* A Delete or a sweeper tick has left two buckets behind, the lowest above 1.
C14_Witness ==
  /\ last.op \in {"Delete", "GC"}
  /\ Cardinality(Frequencies) >= 2
  /\ minFreq >= 2

\* C15: a Set removes at most one key, removes one only when its key is not
\* stored and the store holds as many entries as the capacity, and leaves
\* every entry that is neither its key nor the removed key as it was.
C15_SetFrame ==
  [][\A key \in Keys :
       SetStep(key)
       => LET removed == DOMAIN items \ DOMAIN items'
          IN  /\ Cardinality(removed) <= 1
              /\ key \notin removed
              /\ removed # {} =>
                   /\ key \notin DOMAIN items
                   /\ Cardinality(DOMAIN items) = size
              /\ \A k \in DOMAIN items \ (removed \cup {key}) :
                   k \in DOMAIN items' /\ items'[k] = items[k]
              /\ DOMAIN items' \subseteq DOMAIN items \cup {key}]_vars

\* A Set has evicted one key of a full store of two and kept the other.
C15_Witness ==
  /\ last.op = "Set"
  /\ last.evicted # Nil
  /\ size = 2
  /\ Cardinality(DOMAIN items) = 2
  /\ \E k \in DOMAIN items : k # last.key /\ items[k].Frequency = 1

\* C16: a Set of a stored key, live or expired, removes nothing and adds
\* nothing; the entry gets the value given, an expiration counted from now,
\* and its frequency plus 1.
C16_SetOverwrite ==
  [][\A key \in Keys :
       (SetStep(key) /\ key \in DOMAIN items)
       => /\ DOMAIN items' = DOMAIN items
          /\ items'[key].Value = last'.value
          /\ items'[key].Expiration =
               now + (IF last'.duration > 0 THEN last'.duration
                                            ELSE defaultExpiration)
          /\ items'[key].Frequency = items[key].Frequency + 1]_vars

\* A Set has overwritten a key, once expired, while the store was full.
C16_Witness ==
  /\ last.op = "Set"
  /\ last.evicted = Nil
  /\ last.key \in DOMAIN items
  /\ bumps[last.key] >= 1
  /\ items[last.key].Value = "y"
  /\ now > 0
  /\ Cardinality(DOMAIN items) = size

\* A step that records an Update is the call Update(isUpdated, duration) when
\* it leaves the cache as the loop of that call does, in some order.
UpdateStep(isUpdated, duration) ==
  [items |-> items', freqGroup |-> freqGroup', minFreq |-> minFreq']
    \in {updateLoop(Cache, order, 1, isUpdated, getExp(duration)) :
           order \in Orders(DOMAIN items)}

\* What Update(isUpdated, duration) does to the entries: those that are
\* unexpired and whose value isUpdated accepts get the new expiration and
\* their frequency plus 1, every other entry stays, and the keys stay.
UpdateEffect(isUpdated, duration) ==
  LET hit == {k \in DOMAIN items :
                items[k].Value \in isUpdated /\ now <= items[k].Expiration}
      exp == now + (IF duration > 0 THEN duration ELSE defaultExpiration)
  IN  /\ DOMAIN items' = DOMAIN items
      /\ \A k \in hit :
           /\ items'[k].Value = items[k].Value
           /\ items'[k].Expiration = exp
           /\ items'[k].Frequency = items[k].Frequency + 1
      /\ \A k \in DOMAIN items \ hit : items'[k] = items[k]

\* C17: Update changes exactly the unexpired entries whose value satisfies the
\* predicate, refreshing the expiration and raising the frequency by 1 once;
\* every other entry keeps value, expiration and frequency, and no entry is
\* added or removed.
C17_UpdateFrame ==
  [][(last'.op = "Update" /\ now' = now)
     => \A isUpdated \in SUBSET Values, duration \in Durations :
          UpdateEffect(isUpdated, duration) \/ ~UpdateStep(isUpdated, duration)]_vars

\* An Update has bumped one entry and passed over an expired one.
C17_Witness ==
  /\ last.op = "Update"
  /\ last.count = 1
  /\ Cardinality(DOMAIN items) = 2
  /\ \E k \in DOMAIN items : now > items[k].Expiration
  /\ \E k \in DOMAIN items : items[k].Frequency = 2 /\ now <= items[k].Expiration

\* C18: a sweeper tick removes from the entries and from the buckets exactly
\* the entries expired at the tick: no expired entry remains, and every
\* unexpired entry is still stored with value, expiration and frequency
\* unchanged.
C18_SweepExact ==
  [][(last'.op = "GC" /\ now' = now)
     => LET expired == {k \in DOMAIN items : now > items[k].Expiration}
        IN  /\ DOMAIN items' = DOMAIN items \ expired
            /\ \A k \in DOMAIN items' : items'[k] = items[k]
            /\ \A k \in expired : ~InSomeGroup(freqGroup', k)
            /\ \A k \in DOMAIN items' : now <= items'[k].Expiration]_vars

\* A sweeper tick has removed an entry and kept one whose expiration is the
\* instant of the tick.
C18_Witness ==
  /\ last.op = "GC"
  /\ last.count >= 1
  /\ \E k \in DOMAIN items : items[k].Expiration = now

\* Whether key is stored and expired.
StoredExpired(key) == key \in DOMAIN items /\ now > items[key].Expiration

\* C20 as stated: without a sweeper an expired entry stays stored through
\* every step but a Delete of its key or a Set of its key.
C20_OnlyOwnKeyRemoves ==
  [][cleanupInterval <= 0
     => \A k \in Keys :
          (StoredExpired(k) /\ ~DeleteStep(k) /\ ~SetStep(k))
          => k \in DOMAIN items']_vars

\* C20: without a sweeper an expired entry stays stored through every step
\* but a Delete of its key and a Set of a key that is not stored, made while
\* the store holds as many entries as the capacity and the expired entry is
\* in the bucket of minFreq.
C20_DeleteOrEvictionRemoves ==
  [][cleanupInterval <= 0
     => \A k \in Keys :
          (/\ StoredExpired(k)
           /\ ~DeleteStep(k)
           /\ ~\E key \in Keys \ DOMAIN items :
                 /\ SetStep(key)
                 /\ Cardinality(DOMAIN items) >= size
                 /\ items[k].Frequency = minFreq)
          => k \in DOMAIN items']_vars

\* Without a sweeper a Get has missed on an expired key of a full store, and
\* the key is still stored.
C20_Witness ==
  /\ cleanupInterval <= 0
  /\ last.op = "Get"
  /\ ~last.found
  /\ StoredExpired(last.key)
  /\ Cardinality(DOMAIN items) = size

\* C19: with a sweeper that keeps ticking, an entry that is stored and
\* expired is eventually not a stored, expired entry any more.
C19_ExpiredEventuallyGone ==
  \A k \in Keys :
    (cleanupInterval > 0 /\ StoredExpired(k)) ~> ~StoredExpired(k)

\* With a sweeper, the store is full and one of its entries has expired.
C19_Witness ==
  /\ cleanupInterval > 0
  /\ Cardinality(DOMAIN items) = 2
  /\ \E k \in Keys : StoredExpired(k)

\* C11: with two callers and the sweeper, at most one goroutine is inside a
\* method body at any time, and it holds the lock; a Set or a Delete that has
\* finished its body leaves the cache the whole call makes of the cache it
\* found when it took the lock; and whenever no goroutine is inside, the
\* frequency index is the partition of the stored keys that whole calls
\* leave.
C11_Serialized ==
  /\ Cardinality({p \in Procs : pc[p] # "idle"}) <= 1
  /\ \A p \in Procs : pc[p] # "idle" => lock = p
  /\ \A p \in Callers :
       pc[p] = "unlock" =>
         /\ cur[p].op = "Set" => Cache \in SetResults(snap, cur[p].item, cur[p].key)
         /\ cur[p].op = "Delete" => Cache = DeleteResult(snap, cur[p].key)
  /\ (\A p \in Procs : pc[p] = "idle") => C13_IndexIsPartition

\* A caller is between the two halves of a Delete, the key gone from the
\* entries and still in its bucket, while the sweeper is running and the
\* other caller is free to call.
C11_Witness ==
  /\ cleanupInterval > 0
  /\ \E p \in Callers :
       /\ pc[p] = "group"
       /\ cur[p].key \notin DOMAIN items
       /\ InSomeGroup(freqGroup, cur[p].key)
       /\ DOMAIN items # {}
       /\ \A q \in Procs \ {p} : pc[q] = "idle"

\* C12 as stated: no goroutine waits for the lock while it holds it, whatever
\* predicate and mutator Update is given.
C12_NoSelfWait ==
  \A p \in Procs : ~(pc[p] = "relock" /\ lock = p)

====
